---- MODULE Spec2Model ----
(***************************************************************************)
(* The LLM-generation repair loop of ProMoAI                                *)
(* (promoai/general_utils/llm_connection.py) as a state machine.           *)
(*                                                                         *)
(* A Python str is modelled as a sequence of tokens, so that the f-string  *)
(* and "+" concatenations of the source are \o.  A raised Exception is a   *)
(* record of the parts its message is built from.                          *)
(***************************************************************************)
EXTENDS Integers, Sequences, FiniteSets, TLC

(***************************************************************************)
(* Bounds of the model.                                                    *)
(***************************************************************************)
MaxIterations == 2
MaxAdditional == 2

(***************************************************************************)
(* Program constants.                                                      *)
(***************************************************************************)
\* AIProviders (ai_providers.py)
OLLAMA == "Ollama"
TOGETHER == "Together"
AIProviders == {OLLAMA, TOGETHER}

\* the literal added to max_iterations in the message of the final raise
ExhaustionLiteral == 5

\* the default of the parameter standard_error_message
ERROR_MESSAGE_FOR_MODEL_GENERATION == <<"ERROR_MESSAGE_FOR_MODEL_GENERATION">>

(***************************************************************************)
(* Input domains.                                                          *)
(***************************************************************************)
\* the invocations of generate_result_with_error_handling
Calls == {"a", "b"}

\* values of the parameter ai_provider: the two enum values and one that
\* names no provider
Providers == AIProviders \cup {"Foo"}

LlmNames == {<<"meta-llama/Llama-3-70B-Instruct">>, <<"gemma3:4b">>}
ApiKeys == {<<>>, <<"key">>}

\* conversations a caller passes in: non-empty, last turn the task
Conversations ==
    { << [role |-> "user", content |-> <<"task">>] >>,
      << [role |-> "system", content |-> <<"prompt">>],
         [role |-> "user", content |-> <<"task">>] >> }

\* what a transport can answer, what an extraction can raise or return
Responses == {<<"r1">>, <<"r2">>}
Errors == {<<"e1">>, <<"e2">>}
Artifacts == {[code |-> <<"code1">>, result |-> "model1"],
              [code |-> <<"code2">>, result |-> "model2"]}

NoArgs ==
    [api_key |-> <<>>, llm_name |-> <<>>, ai_provider |-> "",
     max_iterations |-> 0, additional_iterations |-> 0,
     standard_error_message |-> <<>>]

NoException == [kind |-> "none", name |-> <<>>, iterations |-> 0, error_history |-> <<>>]
NoResult == [kind |-> "none", code |-> <<>>, result |-> "", conversation |-> <<>>]

(***************************************************************************)
(* The page of app.py: the values of its widgets and of its session state. *)
(***************************************************************************)
\* the values of InputType, the options of the radio (app.py line 204)
TEXT == "Text"
MODEL == "Model"
DATA == "Data"
InputTypes == {TEXT, MODEL, DATA}

\* the value 'selected_mode' is initialised with (line 152), taken to be none
\* of the radio's options: the first run of a session then resets the state
INITIAL_MODE == "Model Generation"

\* the two submit buttons; "none": the run was not caused by one of them
Forms == {"none", "model_gen_form", "feedback_form"}

\* the texts typed in the feedback form
Feedbacks == {<<"f1">>, <<"f2">>}

\* the user gives at most this many feedbacks to one model
MaxFeedback == 2

\* session_state['model_gen']: None, or a process model, of which the model
\* keeps only the input type it was made from
None == [produced_under |-> "None"]
ProcessModel(input_type) == [produced_under |-> input_type]

\* st.session_state of a new session has no key
NoKeys == [k \in {} |-> None]

\* no script run has read the widgets yet
NoWidgets == [ai_provider |-> "", api_key |-> <<>>, input_type |-> "",
              submit |-> "none", uploaded |-> FALSE, feedback |-> <<>>]

VARIABLES
    pc,                 \* position of each invocation in the function
    args,               \* the parameters each invocation was called with
    conversation,       \* the caller's list object, mutated in place
    conversation_at_entry, \* history: the list's value when the call was made
    error_history,      \* local error_history
    iteration,          \* the loop variable
    response,           \* local response
    auto_duplicate,     \* local auto_duplicate
    returned,           \* the value the invocation returned
    raised,             \* the exception that left the invocation
    transport_calls,    \* history: the transport calls, with their arguments
    extraction_calls,   \* history: the extraction calls and how each ended
    ENABLE_PRINTS,      \* constants.ENABLE_PRINTS
    stdout,             \* what print() wrote
    session_state,      \* st.session_state of the page: key -> value
    widgets,            \* the widget values the running script reads
    run_pc,             \* position of the page's script, "waiting" between runs
    library_calls       \* history: the promoai calls of the current script run

\* the state of the page of app.py
ui_vars == <<session_state, widgets, run_pc, library_calls>>

vars == <<pc, args, conversation, conversation_at_entry, error_history, iteration,
          response, auto_duplicate, returned, raised, transport_calls,
          extraction_calls, ENABLE_PRINTS, stdout,
          session_state, widgets, run_pc, library_calls>>

Init ==
    /\ pc = [c \in Calls |-> "idle"]
    /\ args = [c \in Calls |-> NoArgs]
    /\ conversation = [c \in Calls |-> <<>>]
    /\ conversation_at_entry = [c \in Calls |-> <<>>]
    /\ error_history = [c \in Calls |-> <<>>]
    /\ iteration = [c \in Calls |-> 0]
    /\ response = [c \in Calls |-> <<>>]
    /\ auto_duplicate = [c \in Calls |-> FALSE]
    /\ returned = [c \in Calls |-> NoResult]
    /\ raised = [c \in Calls |-> NoException]
    /\ transport_calls = [c \in Calls |-> <<>>]
    /\ extraction_calls = [c \in Calls |-> <<>>]
    /\ ENABLE_PRINTS \in BOOLEAN
    /\ stdout = <<>>
    /\ session_state = NoKeys
    /\ widgets = NoWidgets
    /\ run_pc = "waiting"
    /\ library_calls = <<>>

(***************************************************************************)
(* Helpers: list.append, and the expressions of the loop.                  *)
(***************************************************************************)
Turn(role, content) == [role |-> role, content |-> content]

\* faulty variant: the range is one too long
TotalIterations_OffByOne(a) == a.max_iterations + a.additional_iterations + 1

\* faulty variant: the loop runs range(max_iterations) only
TotalIterations_OnlyMax(a) == a.max_iterations

\* range(max_iterations + additional_iterations): the number of attempts
TotalIterations(a) == a.max_iterations + a.additional_iterations

\* faulty variant: every provider but the local one is sent to the cloud transport
IsTogether_NotOllama(provider) == provider # OLLAMA

\* ai_provider == AIProviders.TOGETHER.value
IsTogether(provider) == provider = TOGETHER

\* faulty variant: the comparison is strict
AutoDuplicate_Strict(i, a) == i > a.max_iterations

\* auto_duplicate = iteration >= max_iterations
AutoDuplicate(i, a) == i >= a.max_iterations

\* faulty variant: the error description is not interpolated
NewMessage_NoDescription(standard_error_message, error_description) ==
    <<"Executing your code led to an error! ">> \o standard_error_message
        \o <<" This is the error message: ">>

\* new_message = f"Executing your code led to an error! " + standard_error_message
\*               + f" This is the error message: {error_description}"
NewMessage(standard_error_message, error_description) ==
    <<"Executing your code led to an error! ">> \o standard_error_message
        \o <<" This is the error message: ">> \o error_description

\* Exception(f"AI provider {ai_provider} is not supported!")
NotSupported(a) ==
    [kind |-> "not_supported", name |-> <<a.ai_provider>>, iterations |-> 0,
     error_history |-> <<>>]

\* faulty variant: the message starts with ai_provider
FailedToFix_NamesProvider(a, history) ==
    [kind |-> "failed_to_fix", name |-> <<a.ai_provider>>,
     iterations |-> a.max_iterations + ExhaustionLiteral,
     error_history |-> history]

\* Exception(llm_name + " failed to fix the errors after " + str(max_iterations + 5)
\*           + " iterations! This is the error history: " + str(error_history))
FailedToFix(a, history) ==
    [kind |-> "failed_to_fix", name |-> a.llm_name,
     iterations |-> a.max_iterations + ExhaustionLiteral,
     error_history |-> history]

\* Exception(f"Together API connection failed: {str(e)}")
ConnectionFailed ==
    [kind |-> "connection_failed", name |-> <<"Together API">>, iterations |-> 0,
     error_history |-> <<>>]

\* print("Error detected in iteration " + str(iteration + 1)) under the flag
Printed(flag, out, i) ==
    IF flag THEN Append(out, <<"Error detected in iteration ", i + 1>>) ELSE out

(***************************************************************************)
(* generate_result_with_error_handling, one action per position.           *)
(***************************************************************************)
\* the call: binds the parameters, error_history = []
Call(c) ==
    /\ pc[c] = "idle"
    /\ \E conv \in Conversations, key \in ApiKeys, llm \in LlmNames,
          provider \in Providers,
          max \in 0..MaxIterations, additional \in 0..MaxAdditional :
          /\ args' = [args EXCEPT ![c] =
                 [api_key |-> key, llm_name |-> llm, ai_provider |-> provider,
                  max_iterations |-> max, additional_iterations |-> additional,
                  standard_error_message |-> ERROR_MESSAGE_FOR_MODEL_GENERATION]]
          /\ conversation' = [conversation EXCEPT ![c] = conv]
          /\ conversation_at_entry' = [conversation_at_entry EXCEPT ![c] = conv]
    /\ error_history' = [error_history EXCEPT ![c] = <<>>]
    /\ iteration' = [iteration EXCEPT ![c] = 0]
    /\ pc' = [pc EXCEPT ![c] = "for"]
    /\ UNCHANGED <<response, auto_duplicate, returned, raised, transport_calls,
                   extraction_calls, ENABLE_PRINTS, stdout, ui_vars>>

\* for iteration in range(...): one more iteration
ForBody(c) ==
    /\ pc[c] = "for"
    /\ iteration[c] < TotalIterations(args[c])
    /\ pc' = [pc EXCEPT ![c] = "dispatch"]
    /\ UNCHANGED <<args, conversation, conversation_at_entry, error_history, iteration,
                   response, auto_duplicate, returned, raised, transport_calls,
                   extraction_calls, ENABLE_PRINTS, stdout, ui_vars>>

\* the range is used up: the raise after the loop
ForExhausted(c) ==
    /\ pc[c] = "for"
    /\ ~(iteration[c] < TotalIterations(args[c]))
    /\ raised' = [raised EXCEPT ![c] = FailedToFix(args[c], error_history[c])]
    /\ pc' = [pc EXCEPT ![c] = "raised"]
    /\ UNCHANGED <<args, conversation, conversation_at_entry, error_history, iteration,
                   response, auto_duplicate, returned, transport_calls,
                   extraction_calls, ENABLE_PRINTS, stdout, ui_vars>>

\* faulty variant: the transport is given a copy of the conversation taken at
\* entry, without the turns appended since
DispatchTogether_StaleConversation(c) ==
    /\ pc[c] = "dispatch"
    /\ args[c].ai_provider = TOGETHER
    /\ transport_calls' = [transport_calls EXCEPT ![c] =
           Append(@, [transport |-> "generate_response_with_together",
                      conversation_history |-> conversation_at_entry[c],
                      api_key |-> args[c].api_key,
                      model_name |-> args[c].llm_name,
                      outcome |-> "pending", response |-> <<>>])]
    /\ pc' = [pc EXCEPT ![c] = "transport"]
    /\ UNCHANGED <<args, conversation, conversation_at_entry, error_history, iteration,
                   response, auto_duplicate, returned, raised,
                   extraction_calls, ENABLE_PRINTS, stdout, ui_vars>>

\* if ai_provider == AIProviders.TOGETHER.value: the transport is called
DispatchTogether(c) ==
    /\ pc[c] = "dispatch"
    /\ IsTogether(args[c].ai_provider)
    /\ transport_calls' = [transport_calls EXCEPT ![c] =
           Append(@, [transport |-> "generate_response_with_together",
                      conversation_history |-> conversation[c],
                      api_key |-> args[c].api_key,
                      model_name |-> args[c].llm_name,
                      outcome |-> "pending", response |-> <<>>])]
    /\ pc' = [pc EXCEPT ![c] = "transport"]
    /\ UNCHANGED <<args, conversation, conversation_at_entry, error_history, iteration,
                   response, auto_duplicate, returned, raised,
                   extraction_calls, ENABLE_PRINTS, stdout, ui_vars>>

\* else: raise Exception(f"AI provider {ai_provider} is not supported!")
DispatchOther(c) ==
    /\ pc[c] = "dispatch"
    /\ ~IsTogether(args[c].ai_provider)
    /\ raised' = [raised EXCEPT ![c] = NotSupported(args[c])]
    /\ pc' = [pc EXCEPT ![c] = "raised"]
    /\ UNCHANGED <<args, conversation, conversation_at_entry, error_history, iteration,
                   response, auto_duplicate, returned, transport_calls,
                   extraction_calls, ENABLE_PRINTS, stdout, ui_vars>>

\* generate_response_with_together returns completion.choices[0].message.content
TransportReturns(c) ==
    /\ pc[c] = "transport"
    /\ \E r \in Responses :
          /\ transport_calls' = [transport_calls EXCEPT
                 ![c][Len(transport_calls[c])] =
                     [@ EXCEPT !.outcome = "returned", !.response = r]]
          /\ response' = [response EXCEPT ![c] = r]
    /\ pc' = [pc EXCEPT ![c] = "try"]
    /\ UNCHANGED <<args, conversation, conversation_at_entry, error_history, iteration,
                   auto_duplicate, returned, raised,
                   extraction_calls, ENABLE_PRINTS, stdout, ui_vars>>

\* faulty variant: the transport call is inside the try block, its error is handled
\* like an extraction failure
TransportRaises_Caught(c) ==
    /\ pc[c] = "transport"
    /\ transport_calls' = [transport_calls EXCEPT
           ![c][Len(transport_calls[c])] = [@ EXCEPT !.outcome = "raised"]]
    /\ error_history' = [error_history EXCEPT ![c] =
           Append(@, <<"Together API connection failed: ">>)]
    /\ conversation' = [conversation EXCEPT ![c] =
           Append(@, Turn("user", <<"Executing your code led to an error! ">>
               \o args[c].standard_error_message
               \o <<" This is the error message: ">>
               \o <<"Together API connection failed: ">>))]
    /\ iteration' = [iteration EXCEPT ![c] = @ + 1]
    /\ pc' = [pc EXCEPT ![c] = "for"]
    /\ UNCHANGED <<args, conversation_at_entry, response, auto_duplicate, returned,
                   raised, extraction_calls, ENABLE_PRINTS, stdout, ui_vars>>

\* generate_response_with_together raises; the call is outside the try block
TransportRaises(c) ==
    /\ pc[c] = "transport"
    /\ transport_calls' = [transport_calls EXCEPT
           ![c][Len(transport_calls[c])] = [@ EXCEPT !.outcome = "raised"]]
    /\ raised' = [raised EXCEPT ![c] = ConnectionFailed]
    /\ pc' = [pc EXCEPT ![c] = "raised"]
    /\ UNCHANGED <<args, conversation, conversation_at_entry, error_history, iteration,
                   response, auto_duplicate, returned,
                   extraction_calls, ENABLE_PRINTS, stdout, ui_vars>>

\* try: conversation.append(assistant turn); auto_duplicate = ...; the
\* extraction function is called
TryAppend(c) ==
    /\ pc[c] = "try"
    /\ conversation' = [conversation EXCEPT ![c] =
           Append(@, Turn("assistant", response[c]))]
    /\ auto_duplicate' = [auto_duplicate EXCEPT ![c] =
           AutoDuplicate(iteration[c], args[c])]
    /\ extraction_calls' = [extraction_calls EXCEPT ![c] =
           Append(@, [response |-> response[c],
                      auto_duplicate |-> AutoDuplicate(iteration[c], args[c]),
                      iteration |-> iteration[c],
                      outcome |-> "pending", error |-> <<>>,
                      code |-> <<>>, result |-> ""])]
    /\ pc' = [pc EXCEPT ![c] = "extraction"]
    /\ UNCHANGED <<args, conversation_at_entry, error_history, iteration,
                   response, returned, raised, transport_calls,
                   ENABLE_PRINTS, stdout, ui_vars>>

\* faulty variant: the return is missing, the loop goes on after a success
ExtractionReturns_NoReturn(c) ==
    /\ pc[c] = "extraction"
    /\ \E art \in Artifacts :
          extraction_calls' = [extraction_calls EXCEPT
              ![c][Len(extraction_calls[c])] =
                  [@ EXCEPT !.outcome = "returned", !.code = art.code,
                            !.result = art.result]]
    /\ iteration' = [iteration EXCEPT ![c] = @ + 1]
    /\ pc' = [pc EXCEPT ![c] = "for"]
    /\ UNCHANGED <<args, conversation, conversation_at_entry, error_history,
                   response, auto_duplicate, returned, raised, transport_calls,
                   ENABLE_PRINTS, stdout, ui_vars>>

\* faulty variant: the response is returned in place of the extracted code
ExtractionReturns_ReturnsResponse(c) ==
    /\ pc[c] = "extraction"
    /\ \E art \in Artifacts :
          /\ extraction_calls' = [extraction_calls EXCEPT
                 ![c][Len(extraction_calls[c])] =
                     [@ EXCEPT !.outcome = "returned", !.code = art.code,
                               !.result = art.result]]
          /\ returned' = [returned EXCEPT ![c] =
                 [kind |-> "returned", code |-> response[c], result |-> art.result,
                  conversation |-> conversation[c]]]
    /\ pc' = [pc EXCEPT ![c] = "returned"]
    /\ UNCHANGED <<args, conversation, conversation_at_entry, error_history, iteration,
                   response, auto_duplicate, raised, transport_calls,
                   ENABLE_PRINTS, stdout, ui_vars>>

\* code, result = extraction_function(...); return code, result, conversation
ExtractionReturns(c) ==
    /\ pc[c] = "extraction"
    /\ \E art \in Artifacts :
          /\ extraction_calls' = [extraction_calls EXCEPT
                 ![c][Len(extraction_calls[c])] =
                     [@ EXCEPT !.outcome = "returned", !.code = art.code,
                               !.result = art.result]]
          /\ returned' = [returned EXCEPT ![c] =
                 [kind |-> "returned", code |-> art.code, result |-> art.result,
                  conversation |-> conversation[c]]]
    /\ pc' = [pc EXCEPT ![c] = "returned"]
    /\ UNCHANGED <<args, conversation, conversation_at_entry, error_history, iteration,
                   response, auto_duplicate, raised, transport_calls,
                   ENABLE_PRINTS, stdout, ui_vars>>

\* faulty variant: the corrective turn is not appended
ExtractionRaises_NoTurn(c) ==
    /\ pc[c] = "extraction"
    /\ \E e \in Errors :
          /\ extraction_calls' = [extraction_calls EXCEPT
                 ![c][Len(extraction_calls[c])] =
                     [@ EXCEPT !.outcome = "raised", !.error = e]]
          /\ error_history' = [error_history EXCEPT ![c] = Append(@, e)]
    /\ stdout' = IF ENABLE_PRINTS
                 THEN Append(stdout, <<"Error detected in iteration ", iteration[c] + 1>>)
                 ELSE stdout
    /\ iteration' = [iteration EXCEPT ![c] = @ + 1]
    /\ pc' = [pc EXCEPT ![c] = "for"]
    /\ UNCHANGED <<args, conversation, conversation_at_entry, response, auto_duplicate,
                   returned, raised, transport_calls, ENABLE_PRINTS, ui_vars>>

\* faulty variant: the corrective turn overwrites the assistant turn (conversation[-1] = ...)
ExtractionRaises_Overwrite(c) ==
    /\ pc[c] = "extraction"
    /\ \E e \in Errors :
          /\ extraction_calls' = [extraction_calls EXCEPT
                 ![c][Len(extraction_calls[c])] =
                     [@ EXCEPT !.outcome = "raised", !.error = e]]
          /\ error_history' = [error_history EXCEPT ![c] = Append(@, e)]
          /\ conversation' = [conversation EXCEPT ![c][Len(conversation[c])] =
                 Turn("user", <<"Executing your code led to an error! ">>
                     \o args[c].standard_error_message
                     \o <<" This is the error message: ">> \o e)]
    /\ stdout' = IF ENABLE_PRINTS
                 THEN Append(stdout, <<"Error detected in iteration ", iteration[c] + 1>>)
                 ELSE stdout
    /\ iteration' = [iteration EXCEPT ![c] = @ + 1]
    /\ pc' = [pc EXCEPT ![c] = "for"]
    /\ UNCHANGED <<args, conversation_at_entry, response, auto_duplicate,
                   returned, raised, transport_calls, ENABLE_PRINTS, ui_vars>>

\* faulty variant: the append of the corrective turn is indented under
\* "if constants.ENABLE_PRINTS:"
ExtractionRaises_AppendUnderFlag(c) ==
    /\ pc[c] = "extraction"
    /\ \E e \in Errors :
          /\ extraction_calls' = [extraction_calls EXCEPT
                 ![c][Len(extraction_calls[c])] =
                     [@ EXCEPT !.outcome = "raised", !.error = e]]
          /\ error_history' = [error_history EXCEPT ![c] = Append(@, e)]
          /\ conversation' = [conversation EXCEPT ![c] =
                 IF ENABLE_PRINTS
                 THEN Append(@, Turn("user",
                          <<"Executing your code led to an error! ">>
                          \o args[c].standard_error_message
                          \o <<" This is the error message: ">> \o e))
                 ELSE @]
    /\ stdout' = IF ENABLE_PRINTS
                 THEN Append(stdout, <<"Error detected in iteration ", iteration[c] + 1>>)
                 ELSE stdout
    /\ iteration' = [iteration EXCEPT ![c] = @ + 1]
    /\ pc' = [pc EXCEPT ![c] = "for"]
    /\ UNCHANGED <<args, conversation_at_entry, response, auto_duplicate,
                   returned, raised, transport_calls, ENABLE_PRINTS, ui_vars>>

\* faulty variant: error_history is one list shared by all invocations (a
\* module-level list, or a mutable default argument)
ExtractionRaises_SharedHistory(c) ==
    /\ pc[c] = "extraction"
    /\ \E e \in Errors :
          /\ extraction_calls' = [extraction_calls EXCEPT
                 ![c][Len(extraction_calls[c])] =
                     [@ EXCEPT !.outcome = "raised", !.error = e]]
          /\ error_history' = [d \in Calls |-> Append(error_history[d], e)]
          /\ conversation' = [conversation EXCEPT ![c] =
                 Append(@, Turn("user",
                     <<"Executing your code led to an error! ">>
                     \o args[c].standard_error_message
                     \o <<" This is the error message: ">> \o e))]
    /\ stdout' = IF ENABLE_PRINTS
                 THEN Append(stdout, <<"Error detected in iteration ", iteration[c] + 1>>)
                 ELSE stdout
    /\ iteration' = [iteration EXCEPT ![c] = @ + 1]
    /\ pc' = [pc EXCEPT ![c] = "for"]
    /\ UNCHANGED <<args, conversation_at_entry, response, auto_duplicate,
                   returned, raised, transport_calls, ENABLE_PRINTS, ui_vars>>

\* except Exception as e: the failure is recorded, the corrective user turn
\* is appended, the loop goes on
ExtractionRaises(c) ==
    /\ pc[c] = "extraction"
    /\ \E e \in Errors :
          /\ extraction_calls' = [extraction_calls EXCEPT
                 ![c][Len(extraction_calls[c])] =
                     [@ EXCEPT !.outcome = "raised", !.error = e]]
          /\ error_history' = [error_history EXCEPT ![c] = Append(@, e)]
          /\ conversation' = [conversation EXCEPT ![c] =
                 Append(@, Turn("user",
                     NewMessage(args[c].standard_error_message, e)))]
    /\ stdout' = Printed(ENABLE_PRINTS, stdout, iteration[c])
    /\ iteration' = [iteration EXCEPT ![c] = @ + 1]
    /\ pc' = [pc EXCEPT ![c] = "for"]
    /\ UNCHANGED <<args, conversation_at_entry, response, auto_duplicate,
                   returned, raised, transport_calls, ENABLE_PRINTS, ui_vars>>

Step(c) ==
    \/ Call(c)
    \/ ForBody(c)
    \/ ForExhausted(c)
    \/ DispatchTogether(c)
    \/ DispatchOther(c)
    \/ TransportReturns(c)
    \/ TransportRaises(c)
    \/ TryAppend(c)
    \/ ExtractionReturns(c)
    \/ ExtractionRaises(c)

\* one invocation, run alone
Next == Step("a")

Spec == Init /\ [][Next]_vars

\* the steps of an invocation that was made: the interpreter goes on, and a
\* transport or extraction call that was made returns or raises
Running(c) ==
    \/ ForBody(c)
    \/ ForExhausted(c)
    \/ DispatchTogether(c)
    \/ DispatchOther(c)
    \/ TransportReturns(c)
    \/ TransportRaises(c)
    \/ TryAppend(c)
    \/ ExtractionReturns(c)
    \/ ExtractionRaises(c)

\* the inputs that the control flow does not read, held to one value each:
\* one key, one model name, one conversation
OneKeyModelConversation ==
    pc["a"] # "idle" =>
        /\ args["a"].api_key = <<"key">>
        /\ args["a"].llm_name = <<"gemma3:4b">>
        /\ Len(conversation_at_entry["a"]) = 1

LiveNext == Step("a") /\ OneKeyModelConversation'

\* one invocation, run alone, that is not left unfinished
LiveSpec == Init /\ [][LiveNext]_vars /\ WF_vars(Running("a"))

(***************************************************************************)
(* Two runs with the same inputs and the same behaviour of the transport   *)
(* and of the extraction function: the first with the flag on, the second *)
(* with the flag off.                                                      *)
(***************************************************************************)
\* constants.ENABLE_PRINTS is switched off between the two runs
SetPrints ==
    /\ pc["a"] \in {"returned", "raised"}
    /\ pc["b"] = "idle"
    /\ ENABLE_PRINTS
    /\ ENABLE_PRINTS' = FALSE
    /\ UNCHANGED <<pc, args, conversation, conversation_at_entry, error_history,
                   iteration, response, auto_duplicate, returned, raised,
                   transport_calls, extraction_calls, stdout, ui_vars>>

\* run "b" is called as run "a" was, and its k-th transport call and k-th
\* extraction call end as those of run "a" did
SameInputsAndBehaviour ==
    /\ pc["b"] # "idle" =>
           /\ args["b"] = args["a"]
           /\ conversation_at_entry["b"] = conversation_at_entry["a"]
    /\ \A k \in 1..Len(transport_calls["b"]) :
           (transport_calls["b"][k].outcome # "pending"
                /\ k <= Len(transport_calls["a"])) =>
               /\ transport_calls["b"][k].outcome = transport_calls["a"][k].outcome
               /\ transport_calls["b"][k].response = transport_calls["a"][k].response
    /\ \A k \in 1..Len(extraction_calls["b"]) :
           (extraction_calls["b"][k].outcome # "pending"
                /\ k <= Len(extraction_calls["a"])) =>
               /\ extraction_calls["b"][k].outcome = extraction_calls["a"][k].outcome
               /\ extraction_calls["b"][k].error = extraction_calls["a"][k].error
               /\ extraction_calls["b"][k].code = extraction_calls["a"][k].code
               /\ extraction_calls["b"][k].result = extraction_calls["a"][k].result

FirstRun == Step("a") /\ OneKeyModelConversation'

SecondRun ==
    /\ pc["a"] \in {"returned", "raised"}
    /\ ~ENABLE_PRINTS
    /\ Step("b")
    /\ SameInputsAndBehaviour'

PrintsNext == FirstRun \/ SetPrints \/ SecondRun

\* the first run is made with the flag on
PrintsInit == Init /\ ENABLE_PRINTS

PrintsSpec == PrintsInit /\ [][PrintsNext]_vars

(***************************************************************************)
(* Two invocations whose steps interleave, each with its own conversation  *)
(* object.                                                                 *)
(***************************************************************************)
\* the inputs of the two invocations: max_iterations = 1 and at most one
\* additional iteration, one key, one model name; "a" is given the
\* conversation of one turn and "b" the conversation of two turns
ConcurrentInputs ==
    \A c \in Calls :
        pc[c] # "idle" =>
            /\ args[c].max_iterations = 1
            /\ args[c].additional_iterations <= 1
            /\ args[c].api_key = <<"key">>
            /\ args[c].llm_name = <<"gemma3:4b">>
            /\ Len(conversation_at_entry[c]) = (IF c = "a" THEN 1 ELSE 2)

ConcurrentNext == \E c \in Calls : Step(c) /\ ConcurrentInputs'

ConcurrentSpec == Init /\ [][ConcurrentNext]_vars

(***************************************************************************)
(* The page of app.py.  Every interaction of the user runs the script      *)
(* run_app from its top with the current widget values; st.session_state   *)
(* is what survives from one run to the next.  The calls into promoai and  *)
(* pm4py are calls of code outside this repository's sources: each either  *)
(* returns or raises.                                                      *)
(***************************************************************************)
\* st.session_state[k] = v
SetItem(s, k, v) == [x \in DOMAIN s \cup {k} |-> IF x = k THEN v ELSE s[x]]

\* "if k not in st.session_state: st.session_state[k] = v"
SetDefault(s, k, v) == IF k \in DOMAIN s THEN s ELSE SetItem(s, k, v)

\* lines 147-154
InitializeSessionState(s) ==
    SetDefault(SetDefault(SetDefault(SetDefault(s,
        "model_gen", None),
        "feedback", <<>>),
        "selected_mode", INITIAL_MODE),
        "ai_provider", TOGETHER)

\* faulty variant: a change of the input type keeps the model
ResetForMode_KeepsModel(s, input_type) ==
    SetItem(SetItem(s, "selected_mode", input_type), "feedback", <<>>)

\* lines 210-212
ResetForMode(s, input_type) ==
    SetItem(SetItem(SetItem(s,
        "selected_mode", input_type),
        "model_gen", None),
        "feedback", <<>>)

\* faulty variant: a new model keeps the feedback given to the old one
StoreModel_KeepsFeedback(s, process_model) == SetItem(s, "model_gen", process_model)

\* lines 242-243, 275-276 and 319-320
StoreModel(s, process_model) ==
    SetItem(SetItem(s, "model_gen", process_model), "feedback", <<>>)

\* faulty variant: the feedback replaces the history
StoreUpdate_Overwrite(s, feedback) ==
    SetItem(SetItem(s, "model_gen", s["model_gen"]), "feedback", <<feedback>>)

\* lines 421-422: the model object is stored again and the feedback appended
StoreUpdate(s, feedback) ==
    SetItem(SetItem(s, "model_gen", s["model_gen"]),
            "feedback", Append(s["feedback"], feedback))

\* faulty variant: the key is not asked for
KeyMissing_Never(w) == FALSE

\* "ai_provider == AIProviders.TOGETHER.value and not api_key"
KeyMissing(w) == w.ai_provider = TOGETHER /\ w.api_key = <<>>

\* the widget values a run can read: the key field exists for the cloud
\* provider only (line 197), and no further feedback is submitted once
\* MaxFeedback feedbacks are in the history
WidgetValues ==
    { w \in [ai_provider : AIProviders, api_key : ApiKeys, input_type : InputTypes,
             submit : Forms, uploaded : BOOLEAN, feedback : Feedbacks] :
        /\ w.ai_provider # TOGETHER => w.api_key = <<>>
        /\ w.submit = "feedback_form" =>
               \/ "feedback" \notin DOMAIN session_state
               \/ Len(session_state["feedback"]) < MaxFeedback }

LibraryCall(fn, outcome) == [fn |-> fn, outcome |-> outcome]

\* the steps of a run change nothing of the repair loop
LoopUnchanged ==
    UNCHANGED <<pc, args, conversation, conversation_at_entry, error_history,
                iteration, response, auto_duplicate, returned, raised,
                transport_calls, extraction_calls, ENABLE_PRINTS, stdout>>

\* an interaction starts a run of the script: lines 147-207
Rerun ==
    /\ run_pc = "waiting"
    /\ \E w \in WidgetValues : widgets' = w
    /\ session_state' = InitializeSessionState(session_state)
    /\ library_calls' = <<>>
    /\ run_pc' = "mode"
    /\ LoopUnchanged

\* lines 209-213: st.rerun() abandons the run and starts the script again;
\* a submit button is set only in the run its click caused
ModeChanged ==
    /\ run_pc = "mode"
    /\ widgets.input_type # session_state["selected_mode"]
    /\ session_state' = ResetForMode(session_state, widgets.input_type)
    /\ widgets' = [widgets EXCEPT !.submit = "none"]
    /\ run_pc' = "mode"
    /\ UNCHANGED library_calls
    /\ LoopUnchanged

\* line 209, condition false
ModeUnchanged ==
    /\ run_pc = "mode"
    /\ widgets.input_type = session_state["selected_mode"]
    /\ run_pc' = "model_gen_form"
    /\ UNCHANGED <<session_state, widgets, library_calls>>
    /\ LoopUnchanged

\* lines 229, 257, 292: submit_button is False
NotSubmitted ==
    /\ run_pc = "model_gen_form"
    /\ widgets.submit # "model_gen_form"
    /\ run_pc' = "display"
    /\ UNCHANGED <<session_state, widgets, library_calls>>
    /\ LoopUnchanged

\* lines 230-231
GenerateRefused ==
    /\ run_pc = "model_gen_form"
    /\ widgets.submit = "model_gen_form"
    /\ widgets.input_type = TEXT
    /\ KeyMissing(widgets)
    /\ run_pc' = "display"
    /\ UNCHANGED <<session_state, widgets, library_calls>>
    /\ LoopUnchanged

\* lines 232-243: promoai.generate_model_from_text returns
GenerateReturns ==
    /\ run_pc = "model_gen_form"
    /\ widgets.submit = "model_gen_form"
    /\ widgets.input_type = TEXT
    /\ ~KeyMissing(widgets)
    /\ library_calls' =
           Append(library_calls, LibraryCall("generate_model_from_text", "returned"))
    /\ session_state' = StoreModel(session_state, ProcessModel(widgets.input_type))
    /\ run_pc' = "display"
    /\ UNCHANGED widgets
    /\ LoopUnchanged

\* lines 232-246: promoai.generate_model_from_text raises
GenerateRaises ==
    /\ run_pc = "model_gen_form"
    /\ widgets.submit = "model_gen_form"
    /\ widgets.input_type = TEXT
    /\ ~KeyMissing(widgets)
    /\ library_calls' =
           Append(library_calls, LibraryCall("generate_model_from_text", "raised"))
    /\ run_pc' = "display"
    /\ UNCHANGED <<session_state, widgets>>
    /\ LoopUnchanged

\* lines 257-276: a log was uploaded, read_xes and
\* promoai.generate_model_from_event_log return
DiscoverReturns ==
    /\ run_pc = "model_gen_form"
    /\ widgets.submit = "model_gen_form"
    /\ widgets.input_type = DATA
    /\ widgets.uploaded
    /\ library_calls' =
           Append(library_calls, LibraryCall("generate_model_from_event_log", "returned"))
    /\ session_state' = StoreModel(session_state, ProcessModel(widgets.input_type))
    /\ run_pc' = "display"
    /\ UNCHANGED widgets
    /\ LoopUnchanged

\* lines 257-281: without a log, line 259 reports it and line 265 raises on
\* None; with a log, read_xes or the discovery raises; st.stop() ends the run
DiscoverRaises ==
    /\ run_pc = "model_gen_form"
    /\ widgets.submit = "model_gen_form"
    /\ widgets.input_type = DATA
    /\ library_calls' =
           IF widgets.uploaded
           THEN Append(library_calls, LibraryCall("generate_model_from_event_log", "raised"))
           ELSE library_calls
    /\ run_pc' = "waiting"
    /\ UNCHANGED <<session_state, widgets>>
    /\ LoopUnchanged

\* lines 292-320: a file was uploaded, it is read and
\* promoai.generate_model_from_bpmn or generate_model_from_petri_net returns
LoadReturns ==
    /\ run_pc = "model_gen_form"
    /\ widgets.submit = "model_gen_form"
    /\ widgets.input_type = MODEL
    /\ widgets.uploaded
    /\ library_calls' =
           Append(library_calls, LibraryCall("generate_model_from_bpmn", "returned"))
    /\ session_state' = StoreModel(session_state, ProcessModel(widgets.input_type))
    /\ run_pc' = "display"
    /\ UNCHANGED widgets
    /\ LoopUnchanged

\* lines 292-324: without a file, line 294 reports it and line 300 raises on
\* None; with a file, reading it or the conversion raises, or process_model
\* is unbound at line 319
LoadRaises ==
    /\ run_pc = "model_gen_form"
    /\ widgets.submit = "model_gen_form"
    /\ widgets.input_type = MODEL
    /\ library_calls' =
           IF widgets.uploaded
           THEN Append(library_calls, LibraryCall("generate_model_from_bpmn", "raised"))
           ELSE library_calls
    /\ run_pc' = "display"
    /\ UNCHANGED <<session_state, widgets>>
    /\ LoopUnchanged

\* line 327: the condition of the results section
ModelShown == "model_gen" \in DOMAIN session_state /\ session_state["model_gen"] # None

\* line 327, condition false: the run ends at the footer
NothingShown ==
    /\ run_pc = "display"
    /\ ~ModelShown
    /\ run_pc' = "waiting"
    /\ UNCHANGED <<session_state, widgets, library_calls>>
    /\ LoopUnchanged

\* lines 336-395 raise while the model is drawn: line 434 reports it, and the
\* feedback form is not reached
DisplayRaises ==
    /\ run_pc = "display"
    /\ ModelShown
    /\ run_pc' = "waiting"
    /\ UNCHANGED <<session_state, widgets, library_calls>>
    /\ LoopUnchanged

\* line 408: the button of the feedback form is False
FeedbackNotSubmitted ==
    /\ run_pc = "display"
    /\ ModelShown
    /\ widgets.submit # "feedback_form"
    /\ run_pc' = "waiting"
    /\ UNCHANGED <<session_state, widgets, library_calls>>
    /\ LoopUnchanged

\* lines 409-410
UpdateRefused ==
    /\ run_pc = "display"
    /\ ModelShown
    /\ widgets.submit = "feedback_form"
    /\ KeyMissing(widgets)
    /\ run_pc' = "waiting"
    /\ UNCHANGED <<session_state, widgets, library_calls>>
    /\ LoopUnchanged

\* lines 411-423: process_model.update returns
UpdateReturns ==
    /\ run_pc = "display"
    /\ ModelShown
    /\ widgets.submit = "feedback_form"
    /\ ~KeyMissing(widgets)
    /\ library_calls' = Append(library_calls, LibraryCall("update", "returned"))
    /\ session_state' = StoreUpdate(session_state, widgets.feedback)
    /\ run_pc' = "waiting"
    /\ UNCHANGED widgets
    /\ LoopUnchanged

\* lines 411-425: process_model.update raises
UpdateRaises ==
    /\ run_pc = "display"
    /\ ModelShown
    /\ widgets.submit = "feedback_form"
    /\ ~KeyMissing(widgets)
    /\ library_calls' = Append(library_calls, LibraryCall("update", "raised"))
    /\ run_pc' = "waiting"
    /\ UNCHANGED <<session_state, widgets>>
    /\ LoopUnchanged

PageNext ==
    \/ Rerun
    \/ ModeChanged
    \/ ModeUnchanged
    \/ NotSubmitted
    \/ GenerateRefused
    \/ GenerateReturns
    \/ GenerateRaises
    \/ DiscoverReturns
    \/ DiscoverRaises
    \/ LoadReturns
    \/ LoadRaises
    \/ NothingShown
    \/ DisplayRaises
    \/ FeedbackNotSubmitted
    \/ UpdateRefused
    \/ UpdateReturns
    \/ UpdateRaises

\* one session of the page
PageSpec == Init /\ [][PageNext]_vars

(***************************************************************************)
(* Vocabulary of the properties.                                           *)
(***************************************************************************)
Budget(c) == args[c].max_iterations + args[c].additional_iterations
Appended(c) == Len(conversation[c]) - Len(conversation_at_entry[c])
Done(c) == pc[c] \in {"returned", "raised"}
Succeeded(c) == pc[c] = "returned"
Exhausted(c) == pc[c] = "raised" /\ raised[c].kind = "failed_to_fix"
ConfigurationError(c) == pc[c] = "raised" /\ raised[c].kind = "not_supported"
TransportError(c) == pc[c] = "raised" /\ raised[c].kind = "connection_failed"
IsPrefix(s, t) == Len(s) <= Len(t) /\ SubSeq(t, 1, Len(s)) = s
AllExtractionsRaised(c) ==
    \A k \in 1..Len(extraction_calls[c]) : extraction_calls[c][k].outcome = "raised"
NoTransportRaised(c) ==
    \A k \in 1..Len(transport_calls[c]) : transport_calls[c][k].outcome # "raised"

(***************************************************************************)
(* C1: the number of transport calls never exceeds max_iterations +        *)
(* additional_iterations, and an extraction call that succeeds is the last *)
(* call of the invocation: the loop has returned at that attempt, with as  *)
(* many transport calls as extraction calls and none after it.             *)
(***************************************************************************)
C1_BoundedAndReturnsOnFirstSuccess ==
    \A c \in Calls :
        /\ Len(transport_calls[c]) <= Budget(c)
        /\ Len(extraction_calls[c]) <= Len(transport_calls[c])
        /\ \A k \in 1..Len(extraction_calls[c]) :
               extraction_calls[c][k].outcome = "returned" =>
                   /\ k = Len(extraction_calls[c])
                   /\ k = Len(transport_calls[c])
                   /\ pc[c] = "returned"

\* a success at the second attempt of four: two attempts are left unused
C1_Witness ==
    /\ Succeeded("a")
    /\ Budget("a") = 4
    /\ Len(transport_calls["a"]) = 2
    /\ Len(extraction_calls["a"]) = 2

(***************************************************************************)
(* C2: when every extraction attempt fails and no transport call fails,    *)
(* the loop ends with the exhaustion error, and not before all             *)
(* max_iterations + additional_iterations attempts were made; the error    *)
(* history in the exhaustion error has exactly that many entries, entry k  *)
(* being the failure description of attempt k.                             *)
(***************************************************************************)
C2_ExhaustionCarriesFullHistory ==
    \A c \in Calls :
        /\ Exhausted(c) =>
               /\ Len(raised[c].error_history) = Budget(c)
               /\ Len(extraction_calls[c]) = Budget(c)
               /\ \A k \in 1..Budget(c) :
                      /\ extraction_calls[c][k].iteration = k - 1
                      /\ extraction_calls[c][k].outcome = "raised"
                      /\ raised[c].error_history[k] = extraction_calls[c][k].error
        /\ ( /\ Done(c)
             /\ IsTogether(args[c].ai_provider)
             /\ NoTransportRaised(c)
             /\ AllExtractionsRaised(c) ) => Exhausted(c)
        /\ ( /\ pc[c] = "for"
             /\ IsTogether(args[c].ai_provider)
             /\ Len(extraction_calls[c]) = Budget(c) ) =>
               (ENABLED ForExhausted(c) /\ ~ENABLED ForBody(c))

\* the exhaustion error after four failed attempts with two different
\* failure descriptions
C2_Witness ==
    /\ Exhausted("a")
    /\ Budget("a") = 4
    /\ Len(raised["a"].error_history) = 4
    /\ raised["a"].error_history[1] # raised["a"].error_history[2]

(***************************************************************************)
(* C3: the flag passed to the extraction function at attempt i (0-based)   *)
(* is false when i < max_iterations and true when i >= max_iterations.     *)
(***************************************************************************)
C3_TolerantFlag ==
    \A c \in Calls :
        \A k \in 1..Len(extraction_calls[c]) :
            /\ extraction_calls[c][k].iteration = k - 1
            /\ extraction_calls[c][k].auto_duplicate
                   = ((k - 1) >= args[c].max_iterations)

\* max_iterations = 2, additional_iterations = 1: the flags are false, false, true
C3_Witness ==
    /\ args["a"].max_iterations = 2
    /\ args["a"].additional_iterations = 1
    /\ Len(extraction_calls["a"]) = 3
    /\ ~extraction_calls["a"][1].auto_duplicate
    /\ ~extraction_calls["a"][2].auto_duplicate
    /\ extraction_calls["a"][3].auto_duplicate
(***************************************************************************)
(* C4: with the provider value of the local provider (AIProviders.OLLAMA)  *)
(* the loop does not fail with the 'provider is not supported' error, and  *)
(* every transport call goes through the transport of the selected         *)
(* provider: the local one for "Ollama", the cloud one for "Together".     *)
(* The loop of the source violates this statement.                         *)
(***************************************************************************)
C4_OllamaSelectsLocalTransport ==
    \A c \in Calls :
        /\ args[c].ai_provider = OLLAMA => raised[c].kind # "not_supported"
        /\ \A k \in 1..Len(transport_calls[c]) :
               transport_calls[c][k].transport =
                   IF args[c].ai_provider = OLLAMA
                   THEN "generate_response_with_history_ollama"
                   ELSE "generate_response_with_together"

(***************************************************************************)
(* C5: for every max_iterations and additional_iterations >= 0, both 0     *)
(* included, an invocation with a provider value that names no provider    *)
(* ends with the configuration error, never with the exhaustion error.     *)
(* The loop of the source violates this statement.                         *)
(***************************************************************************)
C5_UnsupportedProviderIsConfigurationError ==
    \A c \in Calls :
        (Done(c) /\ args[c].ai_provider \notin AIProviders) =>
            ConfigurationError(c)

(***************************************************************************)
(* C6: an invocation with a provider value that names no provider makes    *)
(* no transport call and no extraction call and leaves the caller's        *)
(* conversation as it was at entry.                                        *)
(***************************************************************************)
C6_UnsupportedProviderNoEffect ==
    \A c \in Calls :
        (pc[c] # "idle" /\ args[c].ai_provider \notin AIProviders) =>
            /\ transport_calls[c] = <<>>
            /\ extraction_calls[c] = <<>>
            /\ conversation[c] = conversation_at_entry[c]
            /\ error_history[c] = <<>>

\* the configuration error raised for "Foo"
C6_Witness ==
    /\ ConfigurationError("a")
    /\ args["a"].ai_provider = "Foo"
    /\ raised["a"].name = <<"Foo">>
    /\ Budget("a") > 0

(***************************************************************************)
(* C7: a transport call that raises, at attempt i, is the last call of the *)
(* invocation, which ends with that transport error: i + 1 transport       *)
(* calls and i extraction calls were made, the error history has the i     *)
(* entries of the attempts before, and the conversation is the one the     *)
(* failed transport call was given, grown by the 2 * i turns of the        *)
(* attempts before and by none for attempt i.                              *)
(***************************************************************************)
C7_TransportErrorPropagates ==
    \A c \in Calls :
        \A k \in 1..Len(transport_calls[c]) :
            transport_calls[c][k].outcome = "raised" =>
                /\ k = Len(transport_calls[c])
                /\ TransportError(c)
                /\ iteration[c] = k - 1
                /\ Len(extraction_calls[c]) = k - 1
                /\ AllExtractionsRaised(c)
                /\ Len(error_history[c]) = k - 1
                /\ \A j \in 1..(k - 1) :
                       error_history[c][j] = extraction_calls[c][j].error
                /\ conversation[c] = transport_calls[c][k].conversation_history
                /\ Appended(c) = 2 * (k - 1)

\* the transport fails at the third attempt, after two failed extractions
C7_Witness ==
    /\ TransportError("a")
    /\ Len(transport_calls["a"]) = 3
    /\ transport_calls["a"][3].outcome = "raised"
    /\ Appended("a") = 4

(***************************************************************************)
(* C8 as stated: on every successful run the number of turns appended to   *)
(* the conversation is 2 * attempts_used.  The loop of the source violates *)
(* this statement: the successful attempt appends one turn, not two.       *)
(***************************************************************************)
C8_AppendedIsTwicePerAttempt ==
    \A c \in Calls :
        Succeeded(c) => Appended(c) = 2 * Len(transport_calls[c])

(***************************************************************************)
(* C8 amended: on every successful run the number of turns appended to the *)
(* conversation is 2 * attempts_used - 1: two per failed attempt and one,  *)
(* the assistant turn, for the successful one; the returned conversation   *)
(* is that conversation.                                                   *)
(***************************************************************************)
C8_AppendedIsTwicePerAttemptMinusOne ==
    \A c \in Calls :
        Succeeded(c) =>
            /\ Appended(c) = 2 * Len(transport_calls[c]) - 1
            /\ returned[c].conversation = conversation[c]

\* fail, then succeed: three turns appended
C8_Witness ==
    /\ Succeeded("a")
    /\ Len(transport_calls["a"]) = 2
    /\ extraction_calls["a"][1].outcome = "raised"
    /\ Appended("a") = 3

(***************************************************************************)
(* C9: the attempt count stated in the exhaustion error is the number of   *)
(* attempts made, max_iterations + additional_iterations; stated here for  *)
(* the runs that made at least one attempt.  The loop of the source        *)
(* violates this statement: it states max_iterations + 5.                  *)
(***************************************************************************)
C9_ExhaustionStatesAttemptsMade ==
    \A c \in Calls :
        (Exhausted(c) /\ Len(transport_calls[c]) > 0) =>
            /\ raised[c].iterations = Budget(c)
            /\ raised[c].iterations = Len(transport_calls[c])

(***************************************************************************)
(* C10: the conversation is append-only: in every state of an invocation   *)
(* the conversation passed at entry is a prefix of the conversation, and   *)
(* every step leaves the turns already present as they are, in their       *)
(* order; this includes the final states of all four outcomes.             *)
(***************************************************************************)
C10_EntryIsPrefix ==
    \A c \in Calls : IsPrefix(conversation_at_entry[c], conversation[c])

C10_StepAppendsOnly ==
    \A c \in Calls : IsPrefix(conversation[c], conversation'[c])

C10_AppendOnly == []C10_EntryIsPrefix /\ [][C10_StepAppendsOnly]_vars

\* the exhaustion error after two failed attempts: four turns were appended
\* to a conversation of two turns
C10_Witness ==
    /\ Exhausted("a")
    /\ Len(conversation_at_entry["a"]) = 2
    /\ Appended("a") = 4
(***************************************************************************)
(* C11: when every transport call and every extraction call returns or     *)
(* raises, an invocation that was made ends; it made at most               *)
(* max_iterations + additional_iterations attempts; it ends in exactly one *)
(* of success, configuration error, exhaustion error, transport error;     *)
(* and once it has ended nothing of it changes any more.                   *)
(***************************************************************************)
C11_Outcomes(c) ==
    { o \in {"success", "configuration", "exhaustion", "transport"} :
        \/ o = "success" /\ Succeeded(c) /\ returned[c].kind = "returned"
              /\ raised[c] = NoException
        \/ o = "configuration" /\ ConfigurationError(c) /\ returned[c] = NoResult
        \/ o = "exhaustion" /\ Exhausted(c) /\ returned[c] = NoResult
        \/ o = "transport" /\ TransportError(c) /\ returned[c] = NoResult }

C11_BoundedOneOutcome ==
    \A c \in Calls :
        /\ iteration[c] <= Budget(c)
        /\ Len(transport_calls[c]) <= Budget(c)
        /\ Len(extraction_calls[c]) <= Budget(c)
        /\ Done(c) => Cardinality(C11_Outcomes(c)) = 1
        /\ ~Done(c) => (returned[c] = NoResult /\ raised[c] = NoException)

C11_EndIsFinal ==
    \A c \in Calls :
        Done(c) =>
            /\ pc'[c] = pc[c]
            /\ returned'[c] = returned[c]
            /\ raised'[c] = raised[c]
            /\ transport_calls'[c] = transport_calls[c]
            /\ extraction_calls'[c] = extraction_calls[c]
            /\ conversation'[c] = conversation[c]
            /\ error_history'[c] = error_history[c]

C11_Terminates ==
    /\ []C11_BoundedOneOutcome
    /\ [][C11_EndIsFinal]_vars
    /\ \A c \in Calls : (pc[c] # "idle") ~> Done(c)

\* a success at the last of four attempts
C11_Witness ==
    /\ Succeeded("a")
    /\ Budget("a") = 4
    /\ iteration["a"] = 3
    /\ Len(transport_calls["a"]) = 4
(***************************************************************************)
(* C12: when the extraction fails on the first k attempts and succeeds on  *)
(* attempt k + 1, the invocation returns the code and the result of that   *)
(* (k + 1)-th extraction call and the caller's conversation, and the error *)
(* history holds exactly the k failure descriptions of the attempts before.*)
(***************************************************************************)
C12_ReturnsSuccessfulExtraction ==
    \A c \in Calls :
        Succeeded(c) =>
            LET n == Len(extraction_calls[c]) IN
            /\ n >= 1
            /\ n <= Budget(c)
            /\ extraction_calls[c][n].outcome = "returned"
            /\ returned[c].code = extraction_calls[c][n].code
            /\ returned[c].result = extraction_calls[c][n].result
            /\ returned[c].conversation = conversation[c]
            /\ Len(error_history[c]) = n - 1
            /\ \A k \in 1..(n - 1) :
                   /\ extraction_calls[c][k].outcome = "raised"
                   /\ error_history[c][k] = extraction_calls[c][k].error

\* fail once, then succeed: the second call's artifact, one entry
C12_Witness ==
    /\ Succeeded("a")
    /\ Len(extraction_calls["a"]) = 2
    /\ Len(error_history["a"]) = 1
    /\ returned["a"].code = extraction_calls["a"][2].code
    /\ returned["a"].code = <<"code2">>

(***************************************************************************)
(* C13 as stated: the exhaustion error names the provider, the ai_provider *)
(* value the loop was called with; stated here for the runs that made at   *)
(* least one attempt.  The loop of the source violates this statement: the *)
(* message starts with llm_name.                                           *)
(***************************************************************************)
C13_ExhaustionNamesProvider ==
    \A c \in Calls :
        (Exhausted(c) /\ Len(transport_calls[c]) > 0) =>
            raised[c].name = <<args[c].ai_provider>>

(***************************************************************************)
(* C13 amended: the exhaustion error names the model, the llm_name value   *)
(* the loop was called with.                                               *)
(***************************************************************************)
C13_ExhaustionNamesModel ==
    \A c \in Calls :
        Exhausted(c) => raised[c].name = args[c].llm_name

\* the exhaustion error of a run with the cloud provider and the model gemma3:4b
C13_Witness ==
    /\ Exhausted("a")
    /\ args["a"].ai_provider = TOGETHER
    /\ raised["a"].name = <<"gemma3:4b">>
    /\ Len(raised["a"].error_history) = 1
(***************************************************************************)
(* C14: constants.ENABLE_PRINTS has no functional effect: of two runs with *)
(* the same inputs and the same transport and extraction behaviour, the    *)
(* first with the flag on and the second with the flag off, the second     *)
(* makes the calls the first made, with the same arguments, appends the    *)
(* same turns, builds the same error history, and ends in the same outcome.*)
(***************************************************************************)
C14_PrintsHaveNoEffect ==
    /\ Len(transport_calls["b"]) <= Len(transport_calls["a"])
    /\ \A k \in 1..Len(transport_calls["b"]) :
           /\ transport_calls["b"][k].transport = transport_calls["a"][k].transport
           /\ transport_calls["b"][k].conversation_history
                  = transport_calls["a"][k].conversation_history
           /\ transport_calls["b"][k].api_key = transport_calls["a"][k].api_key
           /\ transport_calls["b"][k].model_name = transport_calls["a"][k].model_name
    /\ Len(extraction_calls["b"]) <= Len(extraction_calls["a"])
    /\ \A k \in 1..Len(extraction_calls["b"]) :
           /\ extraction_calls["b"][k].response = extraction_calls["a"][k].response
           /\ extraction_calls["b"][k].auto_duplicate
                  = extraction_calls["a"][k].auto_duplicate
    /\ IsPrefix(conversation["b"], conversation["a"])
    /\ IsPrefix(error_history["b"], error_history["a"])
    /\ Done("b") =>
           /\ pc["b"] = pc["a"]
           /\ returned["b"] = returned["a"]
           /\ raised["b"] = raised["a"]
           /\ conversation["b"] = conversation["a"]
           /\ error_history["b"] = error_history["a"]
           /\ transport_calls["b"] = transport_calls["a"]
           /\ extraction_calls["b"] = extraction_calls["a"]

\* both runs ended in the exhaustion error after two failed attempts; the
\* first printed its two lines, the second, with the flag off, printed none
C14_Witness ==
    /\ Exhausted("a")
    /\ Exhausted("b")
    /\ Len(error_history["b"]) = 2
    /\ ~ENABLE_PRINTS
    /\ Len(stdout) = 2
(***************************************************************************)
(* C15: two invocations that run interleaved, each with its own            *)
(* conversation object, do not interfere.  Under every interleaving, a     *)
(* step of one invocation changes nothing of the other; each conversation  *)
(* is its conversation at entry followed by the turns of its own attempts; *)
(* each error history is the list of its own failures; and each outcome is *)
(* the one its own inputs and its own transport and extraction results     *)
(* give when it runs alone.                                                *)
(***************************************************************************)
RECURSIVE C15_OwnTurns(_, _)
C15_OwnTurns(c, n) ==
    IF n = 0 THEN <<>>
    ELSE C15_OwnTurns(c, n - 1)
         \o << [role |-> "assistant", content |-> extraction_calls[c][n].response] >>
         \o (IF extraction_calls[c][n].outcome = "raised"
             THEN << [role |-> "user",
                      content |-> <<"Executing your code led to an error! ">>
                          \o args[c].standard_error_message
                          \o <<" This is the error message: ">>
                          \o extraction_calls[c][n].error] >>
             ELSE <<>>)

RECURSIVE C15_OwnErrors(_, _)
C15_OwnErrors(c, n) ==
    IF n = 0 THEN <<>>
    ELSE C15_OwnErrors(c, n - 1)
         \o (IF extraction_calls[c][n].outcome = "raised"
             THEN <<extraction_calls[c][n].error>> ELSE <<>>)

C15_OwnState ==
    \A c \in Calls :
        LET n == Len(extraction_calls[c])
            t == Len(transport_calls[c])
        IN
        /\ conversation[c] = conversation_at_entry[c] \o C15_OwnTurns(c, n)
        /\ error_history[c] = C15_OwnErrors(c, n)
        /\ \A k \in 1..n :
               extraction_calls[c][k].response = transport_calls[c][k].response
        /\ \A k \in 1..t :
               /\ transport_calls[c][k].api_key = args[c].api_key
               /\ transport_calls[c][k].model_name = args[c].llm_name
               /\ IsPrefix(transport_calls[c][k].conversation_history, conversation[c])
        /\ Succeeded(c) <=>
               (n >= 1 /\ extraction_calls[c][n].outcome = "returned")
        /\ Succeeded(c) =>
               returned[c] = [kind |-> "returned",
                              code |-> extraction_calls[c][n].code,
                              result |-> extraction_calls[c][n].result,
                              conversation |-> conversation[c]]
        /\ TransportError(c) <=>
               (t >= 1 /\ transport_calls[c][t].outcome = "raised")
        /\ ConfigurationError(c) <=>
               (Done(c) /\ args[c].ai_provider # TOGETHER /\ Budget(c) > 0)
        /\ ConfigurationError(c) => raised[c].name = <<args[c].ai_provider>>
        /\ Exhausted(c) <=>
               ( /\ Done(c)
                 /\ n = Len(error_history[c])
                 /\ t = n
                 /\ (Budget(c) = 0 \/ (args[c].ai_provider = TOGETHER /\ n = Budget(c))) )
        /\ Exhausted(c) =>
               /\ raised[c].error_history = C15_OwnErrors(c, n)
               /\ raised[c].name = args[c].llm_name

C15_OtherUntouched ==
    \A c \in Calls :
        pc'[c] = pc[c] =>
            /\ args'[c] = args[c]
            /\ conversation'[c] = conversation[c]
            /\ conversation_at_entry'[c] = conversation_at_entry[c]
            /\ error_history'[c] = error_history[c]
            /\ iteration'[c] = iteration[c]
            /\ response'[c] = response[c]
            /\ auto_duplicate'[c] = auto_duplicate[c]
            /\ returned'[c] = returned[c]
            /\ raised'[c] = raised[c]
            /\ transport_calls'[c] = transport_calls[c]
            /\ extraction_calls'[c] = extraction_calls[c]

C15_NoInterference == []C15_OwnState /\ [][C15_OtherUntouched]_vars

\* both invocations are in the middle of their second attempt, each after
\* one failure of its own, with different failure descriptions
C15_Witness ==
    /\ pc["a"] = "extraction"
    /\ pc["b"] = "transport"
    /\ error_history["a"] = << <<"e1">> >>
    /\ error_history["b"] = << <<"e2">> >>
    /\ Len(conversation["a"]) = 4
    /\ Len(conversation["b"]) = 4
(***************************************************************************)
(* C16: in every state the number of entries of the error history, the     *)
(* number of user turns appended so far and the number of extraction calls *)
(* that raised so far are equal; a step adds at most one to them, and adds *)
(* it to all three at once, so that nothing but an extraction failure adds *)
(* an entry or a user turn.                                                *)
(***************************************************************************)
C16_UserTurnsAppended(c) ==
    Cardinality({ j \in (Len(conversation_at_entry[c]) + 1)..Len(conversation[c]) :
                    conversation[c][j].role = "user" })

C16_FailedExtractions(c) ==
    Cardinality({ k \in 1..Len(extraction_calls[c]) :
                    extraction_calls[c][k].outcome = "raised" })

C16_CountsAgree ==
    \A c \in Calls :
        /\ Len(error_history[c]) = C16_UserTurnsAppended(c)
        /\ Len(error_history[c]) = C16_FailedExtractions(c)

C16_OneAtATime ==
    \A c \in Calls :
        pc[c] # "idle" =>
            /\ Len(error_history'[c]) - Len(error_history[c]) \in {0, 1}
            /\ Len(error_history'[c]) = Len(error_history[c]) + 1
                   <=> (pc[c] = "extraction" /\ pc'[c] = "for")

C16_OneEntryOneTurnPerFailure == []C16_CountsAgree /\ [][C16_OneAtATime]_vars

\* three failed extractions: three entries, three user turns
C16_Witness ==
    /\ Len(error_history["a"]) = 3
    /\ C16_UserTurnsAppended("a") = 3
    /\ C16_FailedExtractions("a") = 3
    /\ pc["a"] = "for"
(***************************************************************************)
(* C17: within each attempt there is one transport call, then the append   *)
(* of the assistant turn holding the response of that call, then one       *)
(* extraction call on that response: the k-th extraction call is made on   *)
(* the response the k-th transport call returned, which is then the k-th   *)
(* assistant turn of the conversation; there is never more than one        *)
(* transport call ahead of the extraction calls; the first transport call  *)
(* is given the conversation at entry, and the transport call of a later   *)
(* attempt the whole conversation so far, whose last turn is the           *)
(* corrective user turn of the attempt before.                             *)
(***************************************************************************)
C17_OrderWithinAttempt ==
    \A c \in Calls :
        LET n == Len(extraction_calls[c])
            t == Len(transport_calls[c])
            base == Len(conversation_at_entry[c])
        IN
        /\ t - n \in {0, 1}
        /\ t = n + 1 <=> pc[c] \in {"transport", "try"}
                         \/ (pc[c] = "raised" /\ raised[c].kind = "connection_failed")
        /\ \A k \in 1..n :
               /\ transport_calls[c][k].outcome = "returned"
               /\ extraction_calls[c][k].response = transport_calls[c][k].response
               /\ extraction_calls[c][k].iteration = k - 1
               /\ Len(conversation[c]) >= base + 2 * k - 1
               /\ conversation[c][base + 2 * k - 1]
                      = [role |-> "assistant",
                         content |-> transport_calls[c][k].response]
        /\ \A k \in 1..t :
               /\ transport_calls[c][k].conversation_history
                      = SubSeq(conversation[c], 1, base + 2 * (k - 1))
               /\ k = 1 => transport_calls[c][k].conversation_history
                               = conversation_at_entry[c]
               /\ k > 1 =>
                      transport_calls[c][k].conversation_history[base + 2 * (k - 1)]
                          = [role |-> "user",
                             content |-> <<"Executing your code led to an error! ">>
                                 \o args[c].standard_error_message
                                 \o <<" This is the error message: ">>
                                 \o extraction_calls[c][k - 1].error]

\* the third transport call was made, with the conversation that ends with
\* the corrective turn of the second attempt
C17_Witness ==
    /\ pc["a"] = "transport"
    /\ Len(transport_calls["a"]) = 3
    /\ Len(extraction_calls["a"]) = 2
    /\ transport_calls["a"][3].conversation_history = conversation["a"]
    /\ extraction_calls["a"][1].response # extraction_calls["a"][2].response

(***************************************************************************)
(* C18: for every failed attempt k the corrective turn appended for it has *)
(* role user, and its content is the fixed text, the error template and    *)
(* the failure description of attempt k, which is entry k of the error     *)
(* history.                                                                *)
(***************************************************************************)
C18_CorrectiveTurnDescribesFailure ==
    \A c \in Calls :
        \A k \in 1..Len(error_history[c]) :
            LET j == Len(conversation_at_entry[c]) + 2 * k IN
            /\ Len(conversation[c]) >= j
            /\ conversation[c][j].role = "user"
            /\ conversation[c][j].content
                   = <<"Executing your code led to an error! ">>
                         \o args[c].standard_error_message
                         \o <<" This is the error message: ">>
                         \o error_history[c][k]
            /\ extraction_calls[c][k].outcome = "raised"
            /\ extraction_calls[c][k].iteration = k - 1
            /\ error_history[c][k] = extraction_calls[c][k].error

\* two failed attempts with different descriptions, each in its own turn
C18_Witness ==
    /\ error_history["a"] = << <<"e2">>, <<"e1">> >>
    /\ conversation["a"][Len(conversation_at_entry["a"]) + 2].content[4] = "e2"
    /\ conversation["a"][Len(conversation_at_entry["a"]) + 4].content[4] = "e1"

(***************************************************************************)
(* C19: in every state the turns appended by an invocation alternate       *)
(* assistant, user, assistant, ..., starting with an assistant turn; on    *)
(* success the last turn of the conversation is the assistant turn holding *)
(* the response that was extracted successfully.                           *)
(***************************************************************************)
C19_TurnsAlternate ==
    \A c \in Calls :
        /\ \A j \in 1..Appended(c) :
               conversation[c][Len(conversation_at_entry[c]) + j].role
                   = (IF j % 2 = 1 THEN "assistant" ELSE "user")
        /\ Succeeded(c) =>
               /\ Appended(c) >= 1
               /\ conversation[c][Len(conversation[c])]
                      = [role |-> "assistant",
                         content |-> extraction_calls[c][Len(extraction_calls[c])].response]
               /\ extraction_calls[c][Len(extraction_calls[c])].outcome = "returned"

\* a success at the third attempt: assistant, user, assistant, user, assistant
C19_Witness ==
    /\ Succeeded("a")
    /\ Appended("a") = 5
    /\ conversation["a"][Len(conversation["a"])].role = "assistant"
    /\ conversation["a"][Len(conversation["a"]) - 1].role = "user"
(***************************************************************************)
(* C20 as stated: when the loop ends with the exhaustion error, the        *)
(* conversation has grown by 2 * (max_iterations + additional_iterations)  *)
(* turns and its last turn is a corrective user turn that was sent to no   *)
(* transport call; stated here for the runs with the cloud provider.  The  *)
(* loop of the source violates this statement when max_iterations +        *)
(* additional_iterations = 0: nothing was appended, the last turn is the   *)
(* caller's.                                                               *)
(***************************************************************************)
C20_LastTurnIsCorrective(c) ==
    /\ Appended(c) >= 1
    /\ conversation[c][Len(conversation[c])]
           = [role |-> "user",
              content |-> <<"Executing your code led to an error! ">>
                  \o args[c].standard_error_message
                  \o <<" This is the error message: ">>
                  \o error_history[c][Len(error_history[c])]]

C20_LastTurnNeverSent(c) ==
    \A k \in 1..Len(transport_calls[c]) :
        Len(transport_calls[c][k].conversation_history) < Len(conversation[c])

C20_ExhaustionLeavesUnsentCorrection ==
    \A c \in Calls :
        (Exhausted(c) /\ args[c].ai_provider = TOGETHER) =>
            /\ Appended(c) = 2 * Budget(c)
            /\ C20_LastTurnIsCorrective(c)
            /\ C20_LastTurnNeverSent(c)

(***************************************************************************)
(* C20 amended: when the loop ends with the exhaustion error, the          *)
(* conversation has grown by 2 * (max_iterations + additional_iterations)  *)
(* turns; when max_iterations + additional_iterations >= 1 its last turn   *)
(* is a corrective user turn that was sent to no transport call, and when  *)
(* the sum is 0 the conversation is as it was at entry.                    *)
(***************************************************************************)
C20_ExhaustionLeavesUnsentCorrectionIfAttempted ==
    \A c \in Calls :
        Exhausted(c) =>
            /\ Appended(c) = 2 * Budget(c)
            /\ Budget(c) >= 1 =>
                   /\ C20_LastTurnIsCorrective(c)
                   /\ C20_LastTurnNeverSent(c)
                   /\ Len(transport_calls[c]) = Budget(c)
            /\ Budget(c) = 0 => conversation[c] = conversation_at_entry[c]

\* exhaustion after three attempts: six turns appended, the longest
\* conversation sent had four of them
C20_Witness ==
    /\ Exhausted("a")
    /\ Budget("a") = 3
    /\ Appended("a") = 6
    /\ Len(transport_calls["a"][3].conversation_history)
           = Len(conversation_at_entry["a"]) + 4

(***************************************************************************)
(* C21: with max_iterations = 0, additional_iterations = 0 and a provider  *)
(* of AIProviders, the loop raises the exhaustion error at once, with an   *)
(* empty error history: the step after the call is the final raise, no     *)
(* transport call and no extraction call is made, and the conversation is  *)
(* as it was at entry.                                                     *)
(***************************************************************************)
C21_ZeroBudgetExhaustsAtOnce ==
    \A c \in Calls :
        ( /\ pc[c] # "idle"
          /\ args[c].max_iterations = 0
          /\ args[c].additional_iterations = 0
          /\ args[c].ai_provider \in AIProviders ) =>
            /\ pc[c] \in {"for", "raised"}
            /\ transport_calls[c] = <<>>
            /\ extraction_calls[c] = <<>>
            /\ conversation[c] = conversation_at_entry[c]
            /\ error_history[c] = <<>>
            /\ iteration[c] = 0
            /\ pc[c] = "raised" =>
                   /\ raised[c].kind = "failed_to_fix"
                   /\ raised[c].error_history = <<>>
                   /\ returned[c] = NoResult

\* the exhaustion error of a call with the cloud provider and no budget
C21_Witness ==
    /\ Exhausted("a")
    /\ args["a"].ai_provider = TOGETHER
    /\ args["a"].max_iterations = 0
    /\ args["a"].additional_iterations = 0
    /\ raised["a"].error_history = <<>>
    /\ conversation["a"] = conversation_at_entry["a"]

(***************************************************************************)
(* Vocabulary of the properties of the page.                               *)
(***************************************************************************)
\* st.session_state[k], and d while the key is not there yet
Item(k, d) == IF k \in DOMAIN session_state THEN session_state[k] ELSE d

FeedbackHistory == Item("feedback", <<>>)
ModelGen == Item("model_gen", None)
SelectedMode == Item("selected_mode", INITIAL_MODE)

\* this step is the end of a library call of one of fns, ending as outcome
CallEnds(fns, outcome) ==
    /\ Len(library_calls') = Len(library_calls) + 1
    /\ library_calls'[Len(library_calls')].fn \in fns
    /\ library_calls'[Len(library_calls')].outcome = outcome

Generators ==
    {"generate_model_from_text", "generate_model_from_event_log", "generate_model_from_bpmn"}

(***************************************************************************)
(* C22: the feedback history changes in two ways only: a step that ends a  *)
(* successful update appends the submitted feedback, one entry, at the     *)
(* end; any other change empties it.  An update that raises leaves it as   *)
(* it was, and every successful generation, discovery or load empties it.  *)
(***************************************************************************)
C22_FeedbackHistory ==
    [][ /\ CallEnds({"update"}, "returned") =>
               FeedbackHistory' = Append(FeedbackHistory, widgets.feedback)
        /\ CallEnds({"update"}, "raised") => FeedbackHistory' = FeedbackHistory
        /\ CallEnds(Generators, "returned") => FeedbackHistory' = <<>>
        /\ FeedbackHistory' # FeedbackHistory =>
               \/ CallEnds({"update"}, "returned")
               \/ FeedbackHistory' = <<>> ]_vars

\* a second successful update: the history holds both feedbacks, in order
C22_Witness ==
    /\ run_pc = "waiting"
    /\ library_calls = <<LibraryCall("update", "returned")>>
    /\ widgets.feedback = <<"f2">>
    /\ FeedbackHistory = << <<"f1">>, <<"f2">> >>

(***************************************************************************)
(* C23: a run that finds the selected input type different from            *)
(* 'selected_mode' sets 'selected_mode' to it, 'model_gen' to None and     *)
(* 'feedback' to the empty list, and processes no form; a form is          *)
(* processed only under the input type 'selected_mode' holds.  So at all   *)
(* times a model in 'model_gen' was made from the input type               *)
(* 'selected_mode' holds, which after a run is the selected one.           *)
(***************************************************************************)
C23_ResetOnChange ==
    (run_pc = "mode" /\ widgets.input_type # SelectedMode) =>
        /\ SelectedMode' = widgets.input_type
        /\ ModelGen' = None
        /\ FeedbackHistory' = <<>>
        /\ library_calls' = library_calls
        /\ run_pc' = "mode"

C23_FormsUnderSelectedMode ==
    run_pc \in {"model_gen_form", "display"} => widgets.input_type = SelectedMode

C23_ModelOfSelectedMode ==
    /\ ModelGen # None => ModelGen.produced_under = SelectedMode
    /\ (run_pc = "waiting" /\ widgets # NoWidgets) => widgets.input_type = SelectedMode

C23_ModelMatchesMode ==
    /\ [][C23_ResetOnChange]_vars
    /\ [](C23_FormsUnderSelectedMode /\ C23_ModelOfSelectedMode)

\* a loaded model with feedback, while the input type is changed to another
C23_Witness ==
    /\ run_pc = "mode"
    /\ ModelGen = ProcessModel(MODEL)
    /\ FeedbackHistory # <<>>
    /\ SelectedMode = MODEL
    /\ widgets.input_type = DATA

(***************************************************************************)
(* C24: in a run with the provider Together and an empty API key that was  *)
(* caused by the button of the text form or of the feedback form, no step  *)
(* after the check of the input type calls the library or changes          *)
(* st.session_state, so 'model_gen' and 'feedback' stay as they were, and  *)
(* the run makes no library call at all.                                   *)
(***************************************************************************)
C24_Refused ==
    /\ widgets.ai_provider = TOGETHER
    /\ widgets.api_key = <<>>
    /\ \/ widgets.submit = "model_gen_form" /\ widgets.input_type = TEXT
       \/ widgets.submit = "feedback_form"

C24_NoEffectInRun ==
    (C24_Refused /\ run_pc \in {"model_gen_form", "display"}) =>
        /\ ModelGen' = ModelGen
        /\ FeedbackHistory' = FeedbackHistory
        /\ session_state' = session_state
        /\ library_calls' = library_calls

C24_MissingKeyRefuses ==
    /\ [][C24_NoEffectInRun]_vars
    /\ [](C24_Refused => library_calls = <<>>)

\* the text form was submitted without a key over a model with feedback, and
\* the run has passed the form
C24_Witness ==
    /\ run_pc = "display"
    /\ C24_Refused
    /\ widgets.submit = "model_gen_form"
    /\ ModelGen = ProcessModel(TEXT)
    /\ FeedbackHistory # <<>>

====
